---- MODULE Spec2Model ----
(***************************************************************************)
(* DyGraL: the temporal edge store (TemporalGraph), the snapshot builder,  *)
(* the query helpers, the chain-motif search and the streaming wrapper     *)
(* (GraphStream), as state machines over one store.                        *)
(*                                                                         *)
(* Timestamps are numbers; the model counts them in units of 1e-10, so     *)
(* that the constant 1e-9 of edges_between is the integer Eps. Edges are   *)
(* added without attributes (attrs = {}), as the tests and examples do.    *)
(***************************************************************************)
EXTENDS Integers, Sequences, FiniteSets, TLC

\* ------------------------------------------------------------------ bounds

\* The number of add_edge / ingest calls of a run.
MaxEdges == 2

\* The greatest chain length asked of find_chain_motifs.
MaxLen == 3

\* ------------------------------------------------------------- input sets

Nodes == {"A", "B", "C"}

\* The timestamps of edges, in units of 1e-10: 0 and 0.6e-9.
Times == {0, 6}

\* The instants and window bounds of queries: those, and 2e-9.
QueryTimes == Times \cup {20}

\* The 1e-9 that edges_between subtracts from start, in units of 1e-10.
Eps == 10

\* Python's None, and a value that is set.
None == << >>
Some(x) == << x >>
Opt(S) == {None} \cup {Some(x) : x \in S}

OptTimes == Opt(QueryTimes)

\* window=(start, end) as the callers pass it, or None.
Windows == {None} \cup {<< s, e >> : s \in OptTimes, e \in OptTimes}

\* -------------------------------------------------------------- the state

VARIABLES
    directed,     \* TemporalGraph.directed
    edges,        \* TemporalGraph._edges: the log, records (t, u, v)
    time_index,   \* TemporalGraph._time_index: t -> log positions
    nodes,        \* TemporalGraph.nodes
    times,        \* TemporalGraph._times
    on_update,    \* GraphStream.on_update is set
    ingested,     \* the ingest calls made so far, in order
    events,       \* the invocations of the on_update callback, in order
    last          \* the last query or ingest call and what it returned

store == << directed, edges, time_index, nodes, times >>
stream == << on_update, ingested, events >>
vars == << directed, edges, time_index, nodes, times,
           on_update, ingested, events, last >>

NoCall == [op |-> "none"]

\* TemporalGraph(directed), no edge added and no call made.
GraphInit ==
    /\ directed \in BOOLEAN
    /\ edges = << >>
    /\ time_index = << >>
    /\ nodes = {}
    /\ times = << >>
    /\ last = NoCall

\* A graph that no GraphStream wraps.
Init ==
    /\ GraphInit
    /\ on_update = FALSE
    /\ ingested = << >>
    /\ events = << >>

\* GraphStream(graph, on_update), with a callback or with none.
StreamInit ==
    /\ GraphInit
    /\ on_update \in BOOLEAN
    /\ ingested = << >>
    /\ events = << >>

\* ------------------------------------------------------------ the helpers

\* bisect.bisect_right(a, x): the binary search of the standard library.
RECURSIVE BisectLoop(_, _, _, _)
BisectLoop(a, x, lo, hi) ==
    IF lo < hi
    THEN LET mid == (lo + hi) \div 2
         IN  IF x < a[mid + 1]
             THEN BisectLoop(a, x, lo, mid)
             ELSE BisectLoop(a, x, mid + 1, hi)
    ELSE lo

bisect_right(a, x) == BisectLoop(a, x, 0, Len(a))

\* list.insert(i, x), i counted from 0.
ListInsert(a, i, x) == SubSeq(a, 1, i) \o << x >> \o SubSeq(a, i + 1, Len(a))

InListNever(a, x) == FALSE

\* t in self._times
InList(a, x) == \E k \in 1..Len(a) : a[k] = x

\* defaultdict(list)[t].append(idx); log positions are counted from 0.
IndexAppend(index, t, idx) ==
    IF t \in DOMAIN index
    THEN [index EXCEPT ![t] = Append(@, idx)]
    ELSE [k \in DOMAIN index \cup {t} |-> IF k = t THEN << idx >> ELSE index[k]]

\* --------------------------------------------------------- the edge store

\* add_edge(u, v, t)
add_edge(u, v, t) ==
    /\ edges' = Append(edges, [t |-> t, u |-> u, v |-> v])
    /\ time_index' = IndexAppend(time_index, t, Len(edges))
    /\ times' = IF InList(times, t)
                THEN times
                ELSE ListInsert(times, bisect_right(times, t), t)
    /\ nodes' = nodes \cup {u, v}
    /\ UNCHANGED directed

AddEdge ==
    /\ Len(edges) < MaxEdges
    /\ \E u \in Nodes, v \in Nodes, t \in Times : add_edge(u, v, t)
    /\ UNCHANGED << stream, last >>

\* The edges of the buckets of ts[k], k in from..Len(ts), in that order.
RECURSIVE Buckets(_, _)
Buckets(ts, from) ==
    IF from > Len(ts)
    THEN << >>
    ELSE [k \in 1..Len(time_index[ts[from]]) |->
              edges[time_index[ts[from]][k] + 1]]
         \o Buckets(ts, from + 1)

\* start - 1e-9
SubEps(start) == start - Eps

\* self._times[lo:hi]
Slice(a, lo, hi) == SubSeq(a, lo + 1, hi)

\* edges_between(start, end), the sequence it yields.
edges_between(start, end) ==
    IF start = None /\ end = None
    THEN edges
    ELSE LET lo == IF start # None
                   THEN bisect_right(times, SubEps(start[1]))
                   ELSE 0
             hi == IF end # None
                   THEN bisect_right(times, end[1])
                   ELSE Len(times)
         IN  Buckets(Slice(times, lo, hi), 1)

EdgesBetween ==
    /\ \E start \in OptTimes, end \in OptTimes :
           last' = [op |-> "edges_between", n |-> Len(edges),
                    start |-> start, end |-> end,
                    out |-> edges_between(start, end)]
    /\ UNCHANGED << store, stream >>

\* ---------------------------------------------------- the snapshot builder

\* A networkx graph: its nodes, and the "time" attribute of each edge. An
\* undirected graph keeps one attribute dictionary per edge, read under
\* either order of its endpoints.
EmptyGraph == [nodes |-> {}, time |-> << >>]

\* An add_edge that keeps the attribute an edge already has.
G_add_edge_keep(G, u, v, t) ==
    LET keys == IF directed THEN {<< u, v >>} ELSE {<< u, v >>, << v, u >>}
    IN  [nodes |-> G.nodes \cup {u, v},
         time |-> [p \in DOMAIN G.time \cup keys |->
                       IF p \in DOMAIN G.time THEN G.time[p] ELSE t]]

\* G.add_edge(u, v, time=t): the nodes are added, the attribute overwritten.
G_add_edge(G, u, v, t) ==
    LET keys == IF directed THEN {<< u, v >>} ELSE {<< u, v >>, << v, u >>}
    IN  [nodes |-> G.nodes \cup {u, v},
         time |-> [p \in DOMAIN G.time \cup keys |->
                       IF p \in keys THEN t ELSE G.time[p]]]

\* for t, u, v, attrs in ...: G.add_edge(u, v, time=t), from the k-th edge on.
RECURSIVE BuildGraph(_, _, _)
BuildGraph(es, k, G) ==
    IF k > Len(es)
    THEN G
    ELSE BuildGraph(es, k + 1, G_add_edge(G, es[k].u, es[k].v, es[k].t))

\* snapshot(end_time, start_time)
snapshot(end_time, start_time) ==
    BuildGraph(edges_between(start_time, end_time), 1, EmptyGraph)

\* ------------------------------------------------------ networkx, as used

\* The classes an exception of networkx is an instance of (exception.py of
\* networkx 2 and 3, where nx.NodeNotFound exists): NodeNotFound derives
\* from NetworkXException, not from NetworkXError.
Bases(exc) ==
    CASE exc = "NodeNotFound" ->
             {"NodeNotFound", "NetworkXException", "Exception"}
      [] exc = "NetworkXNoPath" ->
             {"NetworkXNoPath", "NetworkXUnfeasible", "NetworkXAlgorithmError",
              "NetworkXException", "Exception"}
      [] OTHER -> {exc, "Exception"}

\* except (classes): the clause catches exc.
Catches(classes, exc) == classes \cap Bases(exc) # {}

HasEdge(G, u, v) == << u, v >> \in DOMAIN G.time

\* The simple paths of G from source to target, as node sequences.
SimplePaths(G, source, target) ==
    {p \in UNION {[1..k -> G.nodes] : k \in 1..Cardinality(G.nodes)} :
        /\ p[1] = source
        /\ p[Len(p)] = target
        /\ \A i \in 1..Len(p), j \in 1..Len(p) : i # j => p[i] # p[j]
        /\ \A i \in 1..(Len(p) - 1) : HasEdge(G, p[i], p[i + 1])}

\* nx.shortest_path(G, source, target), unweighted: what it raises, or one
\* of the paths of fewest hops (which one is the traversal's choice).
nx_shortest_path(G, source, target) ==
    IF source \notin G.nodes \/ target \notin G.nodes
    THEN {[exc |-> "NodeNotFound", path |-> << >>]}
    ELSE LET all == SimplePaths(G, source, target)
         IN  IF all = {}
             THEN {[exc |-> "NetworkXNoPath", path |-> << >>]}
             ELSE {[exc |-> "", path |-> p] :
                      p \in {q \in all : \A r \in all : Len(q) <= Len(r)}}

\* nx.has_path(G, source, target): shortest_path, NetworkXNoPath caught.
nx_has_path(G, source, target) ==
    {IF o.exc = ""
     THEN [exc |-> "", ret |-> TRUE]
     ELSE IF Catches({"NetworkXNoPath"}, o.exc)
          THEN [exc |-> "", ret |-> FALSE]
          ELSE [exc |-> o.exc, ret |-> FALSE] :
        o \in nx_shortest_path(G, source, target)}

\* G.degree(node): in-degree plus out-degree of a DiGraph; of a Graph the
\* number of neighbours, a self-loop counted twice.
G_degree(G, node) ==
    IF directed
    THEN Cardinality({v \in G.nodes : HasEdge(G, node, v)})
         + Cardinality({u \in G.nodes : HasEdge(G, u, node)})
    ELSE Cardinality({v \in G.nodes : HasEdge(G, node, v)})
         + (IF HasEdge(G, node, node) THEN 1 ELSE 0)

\* --------------------------------------------------------- the query helpers

\* An instant read as the window (at, at).
ResolveInstantOnly(at, window) ==
    IF window # None
    THEN [start |-> window[1], end |-> window[2]]
    ELSE [start |-> at, end |-> at]

\* if window is not None: start, end = window; else: start, end = None, at
Resolve(at, window) ==
    IF window # None
    THEN [start |-> window[1], end |-> window[2]]
    ELSE [start |-> None, end |-> at]

\* reachable(source, target, at, window): what it returns or raises.
reachable(source, target, at, window) ==
    LET w == Resolve(at, window)
        G == snapshot(w.end, w.start)
    IN  {IF o.exc = ""
         THEN [raised |-> "", ret |-> o.ret]
         ELSE IF Catches({"NetworkXError"}, o.exc)
              THEN [raised |-> "", ret |-> FALSE]
              ELSE [raised |-> o.exc, ret |-> FALSE] :
            o \in nx_has_path(G, source, target)}

\* One entry per node of the path: the time of the edge leaving it, and of
\* the edge entering it for the last.
PathTimesPerNode(G, path) ==
    [i \in 1..Len(path) |->
        IF i < Len(path)
        THEN G.time[<< path[i], path[i + 1] >>]
        ELSE IF i > 1 THEN G.time[<< path[i - 1], path[i] >>] ELSE 0]

\* times = [G[u][v]["time"] for u, v in zip(path[:-1], path[1:])]
PathTimes(G, path) ==
    [i \in 1..(Len(path) - 1) |-> G.time[<< path[i], path[i + 1] >>]]

\* shortest_path(source, target, at, window): (path, times), (None, None),
\* or what it raises.
shortest_path(source, target, at, window) ==
    LET w == Resolve(at, window)
        G == snapshot(w.end, w.start)
    IN  {IF o.exc = ""
         THEN [raised |-> "", path |-> Some(o.path),
               times |-> Some(PathTimes(G, o.path))]
         ELSE IF Catches({"NetworkXNoPath", "NodeNotFound"}, o.exc)
              THEN [raised |-> "", path |-> None, times |-> None]
              ELSE [raised |-> o.exc, path |-> None, times |-> None] :
            o \in nx_shortest_path(G, source, target)}

\* degree(node, at, window)
degree(node, at, window) ==
    LET w == Resolve(at, window)
        G == snapshot(w.end, w.start)
    IN  IF node \notin G.nodes THEN 0 ELSE G_degree(G, node)

\* ------------------------------------------------------- the motif search

\* edges.sort(key=lambda r: r[0]): a stable sort by timestamp; e is put
\* after the entries of the sorted list that are not later than it.
RECURSIVE InsertByTime(_, _, _)
InsertByTime(sorted, e, k) ==
    IF k > Len(sorted) \/ e.t < sorted[k].t
    THEN SubSeq(sorted, 1, k - 1) \o << e >> \o SubSeq(sorted, k, Len(sorted))
    ELSE InsertByTime(sorted, e, k + 1)

\* The sort left out.
SortByTimeSkipped(es, k, sorted) == es

RECURSIVE SortByTime(_, _, _)
SortByTime(es, k, sorted) ==
    IF k > Len(es)
    THEN sorted
    ELSE SortByTime(es, k + 1, InsertByTime(sorted, es[k], 1))

\* dfs(path_nodes, path_times, last_index) and its loop over j, which starts
\* at j; the results appended, in the order they are appended. Positions of
\* es are counted from 1 here.
RECURSIVE dfs(_, _, _, _, _, _)
RECURSIVE DfsLoop(_, _, _, _, _, _)
dfs(es, length, within, path_nodes, path_times, last_index) ==
    IF Len(path_nodes) = length
    THEN << [nodes |-> path_nodes, times |-> path_times] >>
    ELSE DfsLoop(es, length, within, path_nodes, path_times, last_index + 1)

DfsLoop(es, length, within, path_nodes, path_times, j) ==
    IF j > Len(es)
    THEN << >>
    ELSE (IF es[j].u = path_nodes[Len(path_nodes)]
             /\ (\/ within = None
                 \/ es[j].t - path_times[Len(path_times)] <= within[1])
          THEN dfs(es, length, within, Append(path_nodes, es[j].v),
                   Append(path_times, es[j].t), j)
          ELSE << >>)
         \o DfsLoop(es, length, within, path_nodes, path_times, j + 1)

\* for i in range(n): dfs([u, v], [t, t], i)
RECURSIVE Roots(_, _, _, _)
Roots(es, length, within, i) ==
    IF i > Len(es)
    THEN << >>
    ELSE dfs(es, length, within, << es[i].u, es[i].v >>,
             << es[i].t, es[i].t >>, i)
         \o Roots(es, length, within, i + 1)

\* if window is not None: start, end = window; else: start, end = None, None
MotifWindow(window) ==
    IF window # None
    THEN [start |-> window[1], end |-> window[2]]
    ELSE [start |-> None, end |-> None]

\* find_chain_motifs(length, within, window)
find_chain_motifs(length, within, window) ==
    LET w == MotifWindow(window)
        es == SortByTime(edges_between(w.start, w.end), 1, << >>)
    IN  Roots(es, length, within, 1)

\* --------------------------------------------------------- the operations

\* at=..., window=... as a caller gives them: an instant or nothing, or a
\* window.
QueryArgs ==
    {[at |-> a, window |-> None] : a \in OptTimes}
    \cup {[at |-> None, window |-> w] : w \in Windows \ {None}}

\* The chain lengths and the delays asked of find_chain_motifs.
Lengths == 2..MaxLen
Withins == Opt({-1, 0, 6})

\* snapshot(end_time, start_time)
Snapshot ==
    /\ \E start \in OptTimes, end \in OptTimes :
           last' = [op |-> "snapshot", n |-> Len(edges),
                    start |-> start, end |-> end,
                    G |-> snapshot(end, start)]
    /\ UNCHANGED << store, stream >>

\* TemporalQueries.reachable_at(a, b, t)
ReachableAt ==
    /\ \E a \in Nodes, b \in Nodes, t \in QueryTimes :
         \E o \in reachable(a, b, Some(t), None) :
           last' = [op |-> "reachable", n |-> Len(edges),
                    source |-> a, target |-> b,
                    at |-> Some(t), window |-> None,
                    raised |-> o.raised, ret |-> o.ret]
    /\ UNCHANGED << store, stream >>

\* reachable(source, target, at, window)
Reachable ==
    /\ \E source \in Nodes, target \in Nodes, q \in QueryArgs :
         \E o \in reachable(source, target, q.at, q.window) :
           last' = [op |-> "reachable", n |-> Len(edges),
                    source |-> source, target |-> target,
                    at |-> q.at, window |-> q.window,
                    raised |-> o.raised, ret |-> o.ret]
    /\ UNCHANGED << store, stream >>

\* shortest_path(source, target, at, window)
ShortestPath ==
    /\ \E source \in Nodes, target \in Nodes, q \in QueryArgs :
         \E o \in shortest_path(source, target, q.at, q.window) :
           last' = [op |-> "shortest_path", n |-> Len(edges),
                    source |-> source, target |-> target,
                    at |-> q.at, window |-> q.window,
                    raised |-> o.raised, path |-> o.path, times |-> o.times]
    /\ UNCHANGED << store, stream >>

\* degree(node, at, window)
Degree ==
    /\ \E node \in Nodes, q \in QueryArgs :
           last' = [op |-> "degree", n |-> Len(edges), node |-> node,
                    at |-> q.at, window |-> q.window, raised |-> "",
                    ret |-> degree(node, q.at, q.window)]
    /\ UNCHANGED << store, stream >>

\* find_chain_motifs(length, within, window)
FindChainMotifs ==
    /\ \E length \in Lengths, within \in Withins, window \in Windows :
           last' = [op |-> "find_chain_motifs", n |-> Len(edges),
                    length |-> length, within |-> within, window |-> window,
                    results |-> find_chain_motifs(length, within, window)]
    /\ UNCHANGED << store, stream >>

\* The on_update callback of a run: it returns, or raises an Exception.
CallbackOutcomes == {"", "Exception"}

\* ingest with the try/except around the callback left out.
ingest_uncaught(u, v, t, thrown) ==
    /\ add_edge(u, v, t)
    /\ ingested' = Append(ingested, [t |-> t, u |-> u, v |-> v])
    /\ events' = IF on_update
                 THEN Append(events, [t |-> t, u |-> u, v |-> v,
                                      log |-> edges', thrown |-> thrown])
                 ELSE events
    /\ last' = [op |-> "ingest", n |-> Len(edges'),
                raised |-> IF on_update THEN thrown ELSE ""]

\* GraphStream.ingest(u, v, t): the edge is added, then the callback is
\* invoked when there is one; it sees the log with the edge in it, and
\* returns or raises (thrown).
ingest(u, v, t, thrown) ==
    /\ add_edge(u, v, t)
    /\ ingested' = Append(ingested, [t |-> t, u |-> u, v |-> v])
    /\ IF on_update
       THEN /\ events' = Append(events, [t |-> t, u |-> u, v |-> v,
                                         log |-> edges', thrown |-> thrown])
            /\ last' = [op |-> "ingest", n |-> Len(edges'),
                        raised |-> IF thrown = ""
                                      \/ Catches({"Exception"}, thrown)
                                   THEN ""
                                   ELSE thrown]
       ELSE /\ events' = events
            /\ last' = [op |-> "ingest", n |-> Len(edges'), raised |-> ""]

Ingest ==
    /\ Len(edges) < MaxEdges
    /\ \E u \in Nodes, v \in Nodes, t \in Times :
         \E thrown \in IF on_update THEN CallbackOutcomes ELSE {""} :
           ingest(u, v, t, thrown)
    /\ UNCHANGED on_update

\* ------------------------------------------------------ specifications

\* No call has returned yet. A run of the query specifications builds a
\* store and makes one call: the queries leave the store as it is, so every
\* store add_edge can build meets every query input.
Idle == last = NoCall

StoreNext ==
    \/ Idle /\ AddEdge
    \/ Idle /\ EdgesBetween
StoreSpec == Init /\ [][StoreNext]_vars

SnapshotNext ==
    \/ Idle /\ AddEdge
    \/ Idle /\ Snapshot
SnapshotSpec == Init /\ [][SnapshotNext]_vars

\* A reachable_at call, and the store growing after it.
MonoNext ==
    \/ AddEdge
    \/ Idle /\ ReachableAt
MonoSpec == Init /\ [][MonoNext]_vars

QueryNext ==
    \/ Idle /\ AddEdge
    \/ Idle /\ Reachable
    \/ Idle /\ ShortestPath
    \/ Idle /\ Degree
QuerySpec == Init /\ [][QueryNext]_vars

PathNext ==
    \/ Idle /\ AddEdge
    \/ Idle /\ ShortestPath
PathSpec == Init /\ [][PathNext]_vars

MotifNext ==
    \/ Idle /\ AddEdge
    \/ Idle /\ FindChainMotifs
MotifSpec == Init /\ [][MotifNext]_vars

\* A GraphStream and its ingest calls.
StreamSpec == StreamInit /\ [][Ingest]_vars

\* Every operation of the graph, the store growing after a call as well.
Next ==
    \/ AddEdge
    \/ Idle /\ EdgesBetween
    \/ Idle /\ Snapshot
    \/ Idle /\ Reachable
    \/ Idle /\ ReachableAt
    \/ Idle /\ ShortestPath
    \/ Idle /\ Degree
    \/ Idle /\ FindChainMotifs
Spec == Init /\ [][Next]_vars

\* ------------------------------------------------ what the claims speak of

\* The log as it was when the call recorded in last was made: the log only
\* grows, by appending.
LogAt(n) == SubSeq(edges, 1, n)

\* start <= t <= end, an unset bound being no bound.
InWindow(t, start, end) ==
    /\ start = None \/ start[1] <= t
    /\ end = None \/ t <= end[1]

\* Log position i comes before log position j by (timestamp, insertion).
Before(log, i, j) ==
    \/ log[i].t < log[j].t
    \/ log[i].t = log[j].t /\ i < j

\* The positions of S in ascending (timestamp, insertion) order.
RECURSIVE ByTime(_, _)
ByTime(log, S) ==
    IF S = {}
    THEN << >>
    ELSE LET first == CHOOSE i \in S : \A j \in S \ {i} : Before(log, i, j)
         IN  << first >> \o ByTime(log, S \ {first})

\* The in-window edges of the log in ascending (timestamp, insertion) order.
InWindowByTime(log, start, end) ==
    LET pos == ByTime(log, {i \in 1..Len(log) : InWindow(log[i].t, start, end)})
    IN  [k \in 1..Len(pos) |-> log[pos[k]]]

\* --------------------------------------------------------------------- C2
\* C2: after any sequence of add_edge calls the sorted timestamp sequence is
\* strictly ascending and holds exactly the keys of the time index, every
\* log position occurs exactly once in the time index, in the bucket of its
\* own edge's timestamp, and the node set is the union of the endpoints of
\* the logged edges.
C2_StoreInvariant ==
    /\ \A k \in 1..(Len(times) - 1) : times[k] < times[k + 1]
    /\ {times[k] : k \in 1..Len(times)} = DOMAIN time_index
    /\ \A t \in DOMAIN time_index : \A k \in 1..Len(time_index[t]) :
           /\ time_index[t][k] \in 0..(Len(edges) - 1)
           /\ edges[time_index[t][k] + 1].t = t
    /\ \A i \in 0..(Len(edges) - 1) :
           Cardinality({<< t, k >> \in
                           UNION {{t} \X (1..Len(time_index[t])) :
                                     t \in DOMAIN time_index} :
                           time_index[t][k] = i}) = 1
    /\ nodes = UNION {{edges[i].u, edges[i].v} : i \in 1..Len(edges)}

\* Two edges logged against time order, and a third sharing a bucket or not.
C2_Witness ==
    /\ Len(edges) >= 2
    /\ edges[1].t > edges[2].t
    /\ Len(times) = 2

\* --------------------------------------------------------------------- C3
\* C3: edges_between(start, end) yields exactly the logged edges with
\* start <= t <= end, each logged entry once: with a bound set, in ascending
\* timestamp order and insertion order among equal timestamps; with no bound
\* set, the full log in insertion order.
C3_EdgesInRange ==
    last.op = "edges_between" =>
        IF last.start = None /\ last.end = None
        THEN last.out = LogAt(last.n)
        ELSE last.out = InWindowByTime(LogAt(last.n), last.start, last.end)


\* --------------------------------------------------------------------- C1
\* The snapshot a query call resolved: the calls of the query
\* specifications are made on the store as it is.
SnapshotOfCall ==
    LET w == Resolve(last.at, last.window)
    IN  snapshot(w.end, w.start)

\* The endpoints of the edges of a snapshot.
Endpoints(G) == UNION {{p[1], p[2]} : p \in DOMAIN G.time}

\* C1: a reachable, shortest_path or degree query whose source, target or
\* node is not an endpoint of any edge of the resolved snapshot raises no
\* error and returns False, (None, None) and 0 respectively.
C1_UnknownEndpoint ==
    /\ (/\ last.op = "reachable"
        /\ \/ last.source \notin Endpoints(SnapshotOfCall)
           \/ last.target \notin Endpoints(SnapshotOfCall))
       => last.raised = "" /\ last.ret = FALSE
    /\ (/\ last.op = "shortest_path"
        /\ \/ last.source \notin Endpoints(SnapshotOfCall)
           \/ last.target \notin Endpoints(SnapshotOfCall))
       => last.raised = "" /\ last.path = None /\ last.times = None
    /\ (/\ last.op = "degree"
        /\ last.node \notin Endpoints(SnapshotOfCall))
       => last.raised = "" /\ last.ret = 0

\* --------------------------------------------------------------------- C4
\* C4: once reachable(source, target, at=t1) has returned True, every
\* reachable(source, target, at=t2) with t1 <= t2 returns True, on the same
\* store and on the store grown by further add_edge calls.
C4_MonotonicReachability ==
    (last.op = "reachable" /\ last.raised = "" /\ last.ret)
    => \A t2 \in {t \in QueryTimes : last.at[1] <= t} :
          \A o \in reachable(last.source, last.target, Some(t2), None) :
             o.raised = "" /\ o.ret

\* A True answer at the first instant, over two nodes, and an edge added
\* after it.
C4_Witness ==
    /\ last.op = "reachable"
    /\ last.ret
    /\ last.source # last.target
    /\ last.at = Some(0)
    /\ last.n < Len(edges)

\* --------------------------------------------------------------------- C5
NonDecreasing(ts) == \A i \in 1..(Len(ts) - 1) : ts[i] <= ts[i + 1]

DelaysWithin(ts, d) == \A i \in 1..(Len(ts) - 1) : ts[i + 1] - ts[i] <= d

\* C5 as stated: every motif find_chain_motifs returns has a non-decreasing
\* time sequence, and for whatever value of within is set, every two
\* consecutive entries of it differ by at most within.
C5_Original ==
    last.op = "find_chain_motifs" =>
        \A k \in 1..Len(last.results) :
            /\ NonDecreasing(last.results[k].times)
            /\ last.within # None
               => DelaysWithin(last.results[k].times, last.within[1])

\* C5, amended: every motif find_chain_motifs returns has a non-decreasing
\* time sequence; when within is set and not negative, every two
\* consecutive entries of it differ by at most within; when within is
\* negative, only motifs of length 2 are returned, their two time entries
\* equal.
C5_MotifTimeOrdering ==
    last.op = "find_chain_motifs" =>
        \A k \in 1..Len(last.results) :
            /\ NonDecreasing(last.results[k].times)
            /\ (last.within # None /\ last.within[1] >= 0)
               => DelaysWithin(last.results[k].times, last.within[1])
            /\ (last.within # None /\ last.within[1] < 0)
               => /\ last.length = 2
                  /\ last.results[k].times[1] = last.results[k].times[2]

\* A chain of three nodes over two edges of different times, found under a
\* delay that admits it.
C5_Witness ==
    /\ last.op = "find_chain_motifs"
    /\ last.within = Some(6)
    /\ \E k \in 1..Len(last.results) :
          /\ Len(last.results[k].nodes) = 3
          /\ last.results[k].times = << 0, 0, 6 >>

\* --------------------------------------------------------------------- C6
\* The strictly increasing sequences of len positions of es in which each
\* edge starts where the previous one ends and, when within is set, is at
\* most within later than it.
Chains(es, len, within) ==
    {c \in [1..len -> 1..Len(es)] :
        \A i \in 1..(len - 1) :
            /\ c[i] < c[i + 1]
            /\ es[c[i + 1]].u = es[c[i]].v
            /\ within = None \/ es[c[i + 1]].t - es[c[i]].t <= within[1]}

\* The result of a chain: its nodes, and the time of its first edge followed
\* by the time of every edge.
ChainResult(es, c) ==
    [nodes |-> << es[c[1]].u >> \o [i \in 1..Len(c) |-> es[c[i]].v],
     times |-> << es[c[1]].t >> \o [i \in 1..Len(c) |-> es[c[i]].t]]

Count(seq, x) == Cardinality({k \in 1..Len(seq) : seq[k] = x})

\* C6: find_chain_motifs returns exactly one result for each strictly
\* increasing sequence of length-1 positions of the in-window edge list
\* sorted by (timestamp, insertion order) that chains source to destination
\* within the delay, and nothing else.
C6_ChainMotifs ==
    last.op = "find_chain_motifs" =>
        LET w == MotifWindow(last.window)
            es == InWindowByTime(LogAt(last.n), w.start, w.end)
            chains == Chains(es, last.length - 1, last.within)
            expected == {ChainResult(es, c) : c \in chains}
            got == {last.results[k] : k \in 1..Len(last.results)}
        IN  \A r \in expected \cup got :
                Count(last.results, r)
                    = Cardinality({c \in chains : ChainResult(es, c) = r})

\* --------------------------------------------------------------------- C7
\* C7: a path shortest_path returns starts at source, ends at target, every
\* two consecutive nodes of it are joined by an edge of the resolved
\* snapshot, and the time sequence has len(path) - 1 entries, the i-th the
\* time the snapshot records for the i-th edge of the path.
C7_ShortestPathValidity ==
    (last.op = "shortest_path" /\ last.path # None) =>
        LET path == last.path[1]
            w == Resolve(last.at, last.window)
            yielded == edges_between(w.start, w.end)
            G == SnapshotOfCall
        IN  /\ last.raised = ""
            /\ Len(path) >= 1
            /\ path[1] = last.source
            /\ path[Len(path)] = last.target
            /\ \A i \in 1..(Len(path) - 1) :
                  \E k \in 1..Len(yielded) :
                     \/ yielded[k].u = path[i] /\ yielded[k].v = path[i + 1]
                     \/ /\ ~directed
                        /\ yielded[k].v = path[i]
                        /\ yielded[k].u = path[i + 1]
            /\ last.times # None
            /\ Len(last.times[1]) = Len(path) - 1
            /\ \A i \in 1..(Len(path) - 1) :
                  last.times[1][i] = G.time[<< path[i], path[i + 1] >>]

\* A path over two edges of different times.
C7_Witness ==
    /\ last.op = "shortest_path"
    /\ last.path # None
    /\ Len(last.path[1]) = 3
    /\ last.times = Some(<< 0, 6 >>)

\* --------------------------------------------------------------------- C8
\* C8: whatever the callback does, each ingest appends its edge to the log
\* before the callback runs, the callback is invoked once per ingest and in
\* ingestion order, no error reaches the caller, and the log equals the
\* ingested sequence.
C8_Ingest ==
    /\ edges = ingested
    /\ on_update =>
          /\ Len(events) = Len(ingested)
          /\ \A i \in 1..Len(events) :
                /\ [t |-> events[i].t, u |-> events[i].u, v |-> events[i].v]
                      = ingested[i]
                /\ events[i].log = SubSeq(ingested, 1, i)
    /\ last.op = "ingest" => last.raised = ""

\* Two ingests, the callback failing on the first.
C8_Witness ==
    /\ on_update
    /\ Len(events) = 2
    /\ events[1].thrown = "Exception"
    /\ Len(edges) = 2

\* --------------------------------------------------------------------- C9
\* C9: degree(node, at, window) is 0 exactly when the node is no endpoint
\* of a logged edge whose timestamp lies in the resolved window.
C9_DegreeZero ==
    last.op = "degree" =>
        LET w == Resolve(last.at, last.window)
            log == LogAt(last.n)
        IN  last.ret = 0
            <=> ~ \E i \in 1..Len(log) :
                    /\ InWindow(log[i].t, w.start, w.end)
                    /\ last.node \in {log[i].u, log[i].v}

\* -------------------------------------------------------------------- C10
MaxOf(S) == CHOOSE x \in S : \A y \in S : y <= x

\* The log positions of the in-window edges from u to v.
PairPositions(log, u, v, start, end) ==
    {i \in 1..Len(log) :
        /\ log[i].u = u
        /\ log[i].v = v
        /\ InWindow(log[i].t, start, end)}

====
